---- MODULE Spec2Model ----
(***************************************************************************)
(* Model of the PCI IDE/ATA disk driver bsp/drv/dev/block/hdd.c of Prex:   *)
(* the probe of one controller (setup_controller, setup_disk,              *)
(* setup_partitions, read_during_setup), the read path (hdd_read,          *)
(* adjust_blkno, hdd_rw, hdd_setup_io) run by preemptible caller threads,  *)
(* the interrupt path (hdc_isr, hdc_ist) and the ATA channels they talk to.*)
(*                                                                         *)
(* The build is 32-bit (elf32-powerpc): int and size_t are 32 bits wide.   *)
(* A 32-bit word is held as the signed integer with the same bit pattern,  *)
(* so an `int` is itself and an unsigned word u >= 2^31 is u - 2^32.       *)
(* Mathematical values that may leave that range are held as pairs         *)
(* <<q, r>> standing for q * 2^16 + r with 0 <= r < 2^16.                  *)
(***************************************************************************)
EXTENDS Integers, Sequences, FiniteSets, TLC

-----------------------------------------------------------------------------
(* Bounds of the model *)

\* number of hdd_read calls each of two concurrent caller threads makes
MaxCalls == 1

\* number of hdd_read calls a single caller thread makes
MaxCallsSeq == 2

\* length, in 16-bit words, of the longest string drawn from all byte values
\* of FixupBytes
MaxFixupWords == 2

\* number of times fixup_string_endianness is applied to one string
MaxFixups == 2

\* length of the longest list of PCI devices hdd_init goes through
MaxPci == 2

-----------------------------------------------------------------------------
(* Program constants *)

SECTOR_SIZE == 512
BUFFER_LENGTH == 65536
BUFFER_LENGTH_IN_SECTORS == BUFFER_LENGTH \div SECTOR_SIZE

ATA_REG_ERR == 1
ATA_REG_SECTOR_COUNT == 2
ATA_REG_LBA_LOW == 3
ATA_REG_LBA_MID == 4
ATA_REG_LBA_HIGH == 5
ATA_REG_DISK_SELECT == 6
ATA_REG_COMMAND_STATUS == 7

ATA_STATUS_FLAG_ERROR == 1
ATA_STATUS_FLAG_DRQ == 8
ATA_STATUS_FLAG_DEVICE_FAILURE == 32
ATA_STATUS_FLAG_BUSY == 128

\* command bytes written to ATA_REG_COMMAND_STATUS
CMD_READ_SECTORS_EXT == 36
CMD_IDENTIFY == 236

\* values written to the control register
NIEN_DISABLE == 2
NIEN_ENABLE == 0

\* number of disk positions setup_controller probes
NumDiskPositions == 4

-----------------------------------------------------------------------------
(* 32-bit words and wider mathematical values *)

TwoTo8 == 16 * 16
TwoTo16 == TwoTo8 * TwoTo8
TwoTo15 == TwoTo16 \div 2
TwoTo24 == TwoTo16 * TwoTo8

\* the mathematical value of a signed int
Big(i) == <<i \div TwoTo16, i % TwoTo16>>

\* the mathematical value of an unsigned 32-bit word with bit pattern u
BigU(u) == IF u >= 0 THEN Big(u) ELSE <<(u \div TwoTo16) + TwoTo16, u % TwoTo16>>

BAdd(x, y) == <<x[1] + y[1] + ((x[2] + y[2]) \div TwoTo16), (x[2] + y[2]) % TwoTo16>>

BLess(x, y) == (x[1] < y[1]) \/ (x[1] = y[1] /\ x[2] < y[2])

\* the low 32 bits of a mathematical value, as a bit pattern
Trunc32(x) ==
  LET q == x[1] % TwoTo16
  IN  (IF q >= TwoTo15 THEN q - TwoTo16 ELSE q) * TwoTo16 + x[2]

\* C addition of two 32-bit words (unsigned, or int converted to unsigned)
AddU32(a, b) == Trunc32(BAdd(BigU(a), BigU(b)))

\* C unsigned comparison a >= b of two 32-bit words
GeU32(a, b) == ~BLess(BigU(a), BigU(b))

\* byte k (0 = least significant) of a 32-bit word
Byte(u, k) == (u \div (IF k = 0 THEN 1 ELSE IF k = 1 THEN TwoTo8
                        ELSE IF k = 2 THEN TwoTo16 ELSE TwoTo24)) % TwoTo8

\* bitwise test (v & mask) != 0 for a single-bit mask
HasBit(v, mask) == (v \div mask) % 2 = 1

\* a uint64_t is a pair <<high word, low word>> of 32-bit words.
\* Conversion of an int to uint64_t sign-extends.
IntToU64(i) == <<IF i < 0 THEN -1 ELSE 0, i>>

\* Conversion of a uint64_t to a 32-bit size_t keeps the low word.
U64ToSizeT(v) == v[2]

-----------------------------------------------------------------------------
(* What the devices answer during the probe *)

\* a device that answers IDENTIFY: the COMMAND_STATUS read after the command,
\* the ERROR bit of altstatus after the busy wait, byte 99 of the
\* identification space, and the two sector counts as the CPU loads them
Ident(st, e, b99, c28, c48) ==
  [status |-> st, alterr |-> e, byte99 |-> b99, lba28 |-> c28, lba48 |-> c48]

\* an MBR slot
Slot(id, start, cnt) == [system_id |-> id, start_lba |-> start, sector_count |-> cnt]

\* sector 0 of a disk: the status the polled read ends with, the 16-bit word
\* at offset 510 and the four slots at offset 0x1be
Sector0(st, sg, sl) == [status |-> st, sig |-> sg, slots |-> sl]

\* status register values a device shows (DRDY is 0x40, DSC is 0x10)
StatusReady == 64 + 16 + ATA_STATUS_FLAG_DRQ
StatusError == 64 + ATA_STATUS_FLAG_ERROR
StatusFault == 64 + ATA_STATUS_FLAG_DEVICE_FAILURE
StatusIdle == 64 + 16

MBR_SIGNATURE == 43605   \* 0xaa55

Lba28Max == 268435455    \* 0x0fffffff

NoSlots == <<Slot(0, 0, 0), Slot(0, 0, 0), Slot(0, 0, 0), Slot(0, 0, 0)>>

\* 0xffffff00 as a 32-bit word
HighStart == 0 - TwoTo8

\* 0x90000000 as a 32-bit word
HugeCount == (0 - 112) * TwoTo24

\* the answers a disk position may give to IDENTIFY
IdentSet(disknum) ==
  CASE disknum = 0 ->
         { Ident(StatusError, TRUE, 0, 0, <<0, 0>>) }
    [] disknum = 1 ->
         { Ident(0, FALSE, 0, 0, <<0, 0>>),
           Ident(StatusReady, FALSE, 3, Lba28Max, <<0, 400000000>>) }
    [] disknum = 2 ->
         { Ident(0, FALSE, 0, 0, <<0, 0>>),
           Ident(StatusReady, FALSE, 3, Lba28Max, <<0, HugeCount>>) }
    [] OTHER ->
         { Ident(0, FALSE, 0, 0, <<0, 0>>),
           Ident(StatusReady, FALSE, 3, Lba28Max, <<1, 0>>) }

\* the sector 0 a disk position may hold
Sector0Set(disknum) ==
  CASE disknum = 1 ->
         { Sector0(StatusReady, MBR_SIGNATURE,
                   <<Slot(131, 2048, 1000000), Slot(131, HighStart, 4096),
                     Slot(0, 0, 0), Slot(0, 5, 5)>>) }
    [] disknum = 2 -> { Sector0(StatusError, 0, NoSlots) }
    [] OTHER -> { Sector0(StatusReady, 0, NoSlots) }

\* the answers a disk position may give to IDENTIFY when only the probe is
\* looked at
IdentSetWide(disknum) ==
  CASE disknum = 0 ->
         { Ident(0, FALSE, 3, 1000, <<0, 0>>),
           Ident(StatusError, TRUE, 3, 1000, <<0, 0>>),
           Ident(StatusReady, FALSE, 1, 1000, <<0, 0>>),
           Ident(StatusReady, FALSE, 3, 1000, <<0, 0>>) }
    [] disknum = 1 ->
         { Ident(0, FALSE, 0, 0, <<0, 0>>),
           Ident(StatusReady, FALSE, 3, Lba28Max, <<0, 400000000>>) }
    [] disknum = 2 ->
         { Ident(0, FALSE, 0, 0, <<0, 0>>),
           Ident(StatusReady, FALSE, 2, 1000, <<0, 0>>),
           Ident(StatusReady, FALSE, 3, Lba28Max, <<0, HugeCount>>),
           Ident(StatusReady, FALSE, 3, 5000, <<0, 7000>>) }
    [] OTHER ->
         { Ident(StatusReady, FALSE, 1, 1000, <<0, 0>>),
           Ident(StatusReady, FALSE, 0, 1000, <<0, 0>>),
           Ident(StatusReady, FALSE, 3 + 4, 1000, <<0, 0>>) }

\* the sector 0 a disk position may hold when only the probe is looked at
\* (0x55aa is the signature with its bytes exchanged)
Sector0SetWide(disknum) ==
  CASE disknum = 0 ->
         { Sector0(StatusReady, 85 * TwoTo8 + 170,
                   <<Slot(131, 2048, 1000000), Slot(7, 63, 100),
                     Slot(0, 0, 0), Slot(0, 0, 0)>>) }
    [] disknum = 1 ->
         { Sector0(StatusReady, MBR_SIGNATURE,
                   <<Slot(131, 2048, 1000000), Slot(131, HighStart, 4096),
                     Slot(0, 0, 0), Slot(0, 5, 5)>>),
           Sector0(StatusReady, MBR_SIGNATURE,
                   <<Slot(131, 63, 1000), Slot(130, 1063, 1000),
                     Slot(7, 2063, 1000), Slot(12, 3063, 1000)>>) }
    [] disknum = 2 ->
         { Sector0(StatusError, MBR_SIGNATURE,
                   <<Slot(131, 2048, 1000000), Slot(0, 0, 0),
                     Slot(0, 0, 0), Slot(0, 0, 0)>>),
           Sector0(StatusReady, MBR_SIGNATURE,
                   <<Slot(131, 0, 10), Slot(131, 10, 0),
                     Slot(0, 10, 10), Slot(7, 63, 100)>>) }
    [] OTHER ->
         { Sector0(StatusFault, MBR_SIGNATURE,
                   <<Slot(131, 2048, 1000000), Slot(0, 0, 0),
                     Slot(0, 0, 0), Slot(0, 0, 0)>>) }

-----------------------------------------------------------------------------
(* State *)

NULL == 0 - 1
\* a pointer read from memory that was never written
Uninit == 0 - 2

IO_NONE == "IO_NONE"
IO_READ == "IO_READ"

Threads == {1, 2}
Channels == {0, 1}
DiskNums == 0 .. (NumDiskPositions - 1)

VARIABLES
  probe,         \* setup_controller: next disk position to probe; then done
  disks,         \* disknum -> the ata_disk admitted there (admitted = FALSE: none)
  active_disk,   \* c->active_disk: a disknum, NULL or Uninit
  irp,           \* c->irp
  buffer,        \* what c->buffer holds
  ctl,           \* channel -> last value written to its control register
  hwreg,         \* channel -> register -> <<previous, current>> value written
  hw,            \* channel -> the command the device is executing
  status,        \* channel -> status register of the device
  irq,           \* channels whose interrupt has been raised and not yet served
  istreq,        \* IST invocations requested by the ISR and not yet run
  sched,         \* thread holding the scheduler lock (0: none)
  panicked,      \* the kernel has panicked or faulted
  th,            \* thread -> its hdd_read activation
  trace,         \* the last command-block register writes
  callers,       \* the threads that call hdd_read
  fixstr,        \* a string field of an ata_disk under fixup_string_endianness
  which_device,  \* setup_controller's static char which_device
  devname,       \* c->devname, as character codes
  devices,       \* the names device_create has been called with, in order
  pci,           \* the entries of pci_devices hdd_init has not yet looked at
  answers        \* disknum -> what the device there has answered to IDENTIFY

vars == <<probe, disks, active_disk, irp, buffer, ctl, hwreg, hw, status, irq,
          istreq, sched, panicked, th, trace, callers, fixstr, which_device, devname, devices, pci, answers>>

ProbeDone == NumDiskPositions + 1

NoPart ==
  [present |-> FALSE, system_id |-> 0, start_lba |-> 0, sector_count |-> 0,
   devname |-> <<>>]

NoDisk ==
  [admitted |-> FALSE, channel |-> 0, slave |-> 0,
   identification_space |-> [byte99 |-> 0, lba28 |-> 0, lba48 |-> <<0, 0>>],
   devname |-> <<>>, sector0 |-> Sector0(0, 0, NoSlots),
   addressable_sector_count |-> <<0, 0>>,
   partition_list |-> [i \in 0 .. 3 |-> NoPart]]

\* the disk position has not been sent IDENTIFY
NoAnswer == [asked |-> FALSE, id |-> Ident(0, FALSE, 0, 0, <<0, 0>>)]

NoCmd == [busy |-> FALSE, slave |-> 0, lba |-> <<0, 0>>, count |-> 0, by |-> 0]

\* what the bounce buffer holds: n sectors read for the command `cmd`, or
\* bytes that are no sector data (valid = FALSE)
NoData == [valid |-> FALSE, disk |-> 0, lba |-> <<0, 0>>, count |-> 0, n |-> 0]

\* length of the window of register writes that is kept: one command
TraceLen == 2 * 4 + 2

\* append one register write to the window
Emit(tr, ch, reg, val, by) ==
  LET t2 == Append(tr, [ch |-> ch, reg |-> reg, val |-> val, by |-> by])
  IN  IF Len(t2) > TraceLen THEN Tail(t2) ELSE t2

RECURSIVE EmitAll(_, _, _, _)
EmitAll(tr, ch, ws, by) ==
  IF ws = <<>> THEN tr
  ELSE EmitAll(Emit(tr, ch, Head(ws)[1], Head(ws)[2], by), ch, Tail(ws), by)

\* the two-deep register file of a channel after a write
WriteReg(regs, reg, val) == [regs EXCEPT ![reg] = <<regs[reg][2], val>>]

RECURSIVE WriteAll(_, _)
WriteAll(regs, ws) ==
  IF ws = <<>> THEN regs
  ELSE WriteAll(WriteReg(regs, Head(ws)[1], Head(ws)[2]), Tail(ws))

\* (the entry of ATA_REG_ERR is what a read of the error register yields)
NoRegs == [r \in ATA_REG_ERR .. ATA_REG_COMMAND_STATUS |-> <<0, 0>>]

-----------------------------------------------------------------------------
(* Register programming and the device's view of it *)

\* hdd_setup_io with the low-order bytes written before the high-order bytes
SetupIoWritesLowFirst(slave, lba, sector_count) ==
  << <<ATA_REG_DISK_SELECT, 64 + 16 * slave>>,
     <<ATA_REG_SECTOR_COUNT, Byte(sector_count, 0)>>,
     <<ATA_REG_LBA_LOW, Byte(lba[2], 0)>>,
     <<ATA_REG_LBA_MID, Byte(lba[2], 1)>>,
     <<ATA_REG_LBA_HIGH, Byte(lba[2], 2)>>,
     <<ATA_REG_SECTOR_COUNT, Byte(sector_count, 1)>>,
     <<ATA_REG_LBA_LOW, Byte(lba[2], 3)>>,
     <<ATA_REG_LBA_MID, Byte(lba[1], 0)>>,
     <<ATA_REG_LBA_HIGH, Byte(lba[1], 1)>>,
     <<ATA_REG_COMMAND_STATUS, CMD_READ_SECTORS_EXT>> >>

\* hdd_setup_io for IO_READ: the register writes, in order, as <<reg, val>>
SetupIoWrites(slave, lba, sector_count) ==
  << <<ATA_REG_DISK_SELECT, 64 + 16 * slave>>,
     <<ATA_REG_SECTOR_COUNT, Byte(sector_count, 1)>>,
     <<ATA_REG_LBA_LOW, Byte(lba[2], 3)>>,
     <<ATA_REG_LBA_MID, Byte(lba[1], 0)>>,
     <<ATA_REG_LBA_HIGH, Byte(lba[1], 1)>>,
     <<ATA_REG_SECTOR_COUNT, Byte(sector_count, 0)>>,
     <<ATA_REG_LBA_LOW, Byte(lba[2], 0)>>,
     <<ATA_REG_LBA_MID, Byte(lba[2], 1)>>,
     <<ATA_REG_LBA_HIGH, Byte(lba[2], 2)>>,
     <<ATA_REG_COMMAND_STATUS, CMD_READ_SECTORS_EXT>> >>

\* setup_disk: the register writes of the IDENTIFY command
IdentifyWrites(slave) ==
  << <<ATA_REG_DISK_SELECT, 160 + 16 * slave>>,
     <<ATA_REG_SECTOR_COUNT, 0>>,
     <<ATA_REG_LBA_LOW, 0>>,
     <<ATA_REG_LBA_MID, 0>>,
     <<ATA_REG_LBA_HIGH, 0>>,
     <<ATA_REG_COMMAND_STATUS, CMD_IDENTIFY>> >>

\* the 32-bit word made of four bytes, b0 least significant
WordOfBytes(b0, b1, b2, b3) ==
  (IF b3 >= 128 THEN b3 - TwoTo8 ELSE b3) * TwoTo24 + b2 * TwoTo16 + b1 * TwoTo8 + b0

\* The LBA48 command a device takes from its register file when the command
\* register is written: of each two-deep register the previous value is the
\* high-order byte and the current value the low-order byte.
HwCommand(regs, by) ==
  [busy |-> TRUE,
   slave |-> (regs[ATA_REG_DISK_SELECT][2] \div 16) % 2,
   lba |-> << regs[ATA_REG_LBA_MID][1] + TwoTo8 * regs[ATA_REG_LBA_HIGH][1],
              WordOfBytes(regs[ATA_REG_LBA_LOW][2], regs[ATA_REG_LBA_MID][2],
                          regs[ATA_REG_LBA_HIGH][2], regs[ATA_REG_LBA_LOW][1]) >>,
   count |-> regs[ATA_REG_SECTOR_COUNT][1] * TwoTo8 + regs[ATA_REG_SECTOR_COUNT][2],
   by |-> by]

-----------------------------------------------------------------------------
(* Device names, as sequences of character codes: 'h' is 104, 'd' is 100,
   'p' is 112 and '0' is 48 *)

\* setup_controller naming every controller "hd0"
ControllerDevnameFixed(wd) == <<104, 100, 48>>

\* setup_controller, lines 591-596: "hd" and the character which_device
ControllerDevname(wd) == <<104, 100, wd>>

\* setup_disk, lines 530-533: three characters of the controller's name, 'd'
\* and '0' + disknum
DiskDevname(cname, disknum) == SubSeq(cname, 1, 3) \o <<100, 48 + disknum>>

\* setup_partitions with the number of partitions found so far in the name
PartDevnameByCount(dname, partition, found) ==
  dname \o <<112, 48 + (found \div 10), 48 + (found % 10)>>

\* setup_partitions, lines 410-417: the disk's name, 'p' and two digits of
\* the slot index (found: the number of partitions made of earlier slots)
PartDevname(dname, partition, found) ==
  dname \o <<112, 48 + (partition \div 10), 48 + (partition % 10)>>

-----------------------------------------------------------------------------
(* Strings of the identification space *)

\* fixup_string_endianness that stops after the first 16-bit word
FixupFirstWordOnly(p) ==
  IF Len(p) = 0 THEN p ELSE <<p[2], p[1]>> \o SubSeq(p, 3, Len(p))

\* fixup_string_endianness(p, size) with size = Len(p): the bytes it leaves
RECURSIVE fixup_string_endianness(_)
fixup_string_endianness(p) ==
  IF Len(p) > 0
  THEN <<p[2], p[1]>> \o fixup_string_endianness(SubSeq(p, 3, Len(p)))
  ELSE p

\* byte values the short strings are made of
FixupBytes == {0, 32, 65, 255}

\* all strings of n 16-bit words over FixupBytes
RECURSIVE WordStrings(_)
WordStrings(n) ==
  IF n = 0 THEN {<<>>}
  ELSE {<<a, b>> \o w : a \in FixupBytes, b \in FixupBytes, w \in WordStrings(n - 1)}

\* strings of the sizes of serial_number, firmware_revision and model
FieldStrings ==
  { [i \in 1 .. 10 |-> 48 + i], [i \in 1 .. 8 |-> 64 + (i % 3)],
    [i \in 1 .. 40 |-> 64 + i],
    [i \in 1 .. 40 |-> IF i % 2 = 1 THEN 32 ELSE 81] }

\* the strings fixup_string_endianness is given
FixupInputs ==
  UNION {WordStrings(n) : n \in 0 .. MaxFixupWords} \cup FieldStrings

\* no string is under fixup
NoFixup == [orig |-> <<>>, p |-> <<>>, n |-> 0]

-----------------------------------------------------------------------------
(* Initial state: setup_controller has allocated the controller, initialised
   the irp, attached the interrupt and disabled the channels' interrupts; the
   probe loop has not started.  kmem_alloc does not clear memory, so
   active_disk holds whatever was there. *)

IdleThread ==
  [pc |-> "idle", calls |-> 0,
   dev |-> [kind |-> "NONE", disk |-> 0, part |-> 0],
   nbyte_in |-> 0, blkno_in |-> 0,
   nbyte |-> 0, disk |-> NULL, blkno |-> 0, sector_count |-> 0,
   sector_limit |-> 0, transferred_total |-> 0, tsc |-> 0,
   io_lba |-> <<0, 0>>, io_cnt |-> 0, iostep |-> 0,
   slpret |-> "NONE", wake |-> "NONE", err |-> <<"irp", 0>>, ret |-> "NONE",
   subs |-> <<>>, cmds |-> <<>>, copied |-> <<>>, cancelled |-> FALSE]

\* setup_controller of the first and only IDE controller has named it "hd0"
FirstController ==
  /\ which_device = 48 + 1
  /\ devname = ControllerDevname(48)
  /\ devices = <<>>
  /\ pci = <<>>

InitWith(cs) ==
  /\ probe = 0
  /\ disks = [d \in DiskNums |-> NoDisk]
  /\ active_disk \in {NULL, Uninit}
  /\ irp = [cmd |-> IO_NONE, error |-> 0, blkno |-> 0, blksz |-> 0]
  /\ buffer = NoData
  /\ ctl = [ch \in Channels |-> NIEN_DISABLE]
  /\ hwreg = [ch \in Channels |-> NoRegs]
  /\ hw = [ch \in Channels |-> NoCmd]
  /\ status = [ch \in Channels |-> 0]
  /\ irq = {}
  /\ istreq = 0
  /\ sched = 0
  /\ panicked = FALSE
  /\ th = [t \in Threads |-> IdleThread]
  /\ trace = <<>>
  /\ callers = cs
  /\ FirstController
  /\ answers = [d \in DiskNums |-> NoAnswer]

\* two callers
Init == InitWith(Threads) /\ fixstr = NoFixup

\* a single caller
InitSeq == InitWith({1}) /\ fixstr = NoFixup

-----------------------------------------------------------------------------
(* Probe *)

\* setup_disk without the test of dma_supported
AdmittedLbaOnly(id) ==
  /\ id.status # 0
  /\ ~id.alterr
  /\ HasBit(id.byte99, 2)

\* setup_disk: is the disk that answered `id` admitted
Admitted(id) ==
  /\ id.status # 0
  /\ ~id.alterr
  /\ HasBit(id.byte99, 2)
  /\ HasBit(id.byte99, 1)

\* setup_disk taking the lba48 area whatever the lba28 count is
AddressableSectorCountLba48(id) == id.lba48

\* setup_disk: the sector count chosen for the disk, a uint64_t
AddressableSectorCount(id) ==
  IF id.lba28 = Lba28Max THEN id.lba48 ELSE <<0, id.lba28>>

\* read_during_setup: 0 on success, else EIO
ReadDuringSetupFails(st) ==
  HasBit(st, ATA_STATUS_FLAG_ERROR) \/ HasBit(st, ATA_STATUS_FLAG_DEVICE_FAILURE)

\* setup_partitions: is slot p of the table skipped
SlotSkipped(p) == p.start_lba = 0 \/ p.sector_count = 0 \/ p.system_id = 0

\* setup_partitions: the partition list made from sector 0 of the disk named
\* dname
PartitionList(s0, dname) ==
  [i \in 0 .. 3 |->
     LET p == s0.slots[i + 1]
         found == Cardinality({j \in 0 .. (i - 1) : ~SlotSkipped(s0.slots[j + 1])})
     IN  IF \/ ReadDuringSetupFails(s0.status)
            \/ s0.sig # MBR_SIGNATURE
            \/ SlotSkipped(p)
         THEN NoPart
         ELSE [present |-> TRUE, system_id |-> p.system_id,
               start_lba |-> p.start_lba, sector_count |-> p.sector_count,
               devname |-> PartDevname(dname, i, found)]]

\* the names of the partitions of a list, in slot order
RECURSIVE PartNames(_, _)
PartNames(pl, i) ==
  IF i > 3 THEN <<>>
  ELSE (IF pl[i].present THEN <<pl[i].devname>> ELSE <<>>) \o PartNames(pl, i + 1)

\* setup_disk(self, c, disknum), with setup_partitions and read_during_setup
SetupDisk ==
  /\ probe \in DiskNums
  /\ \E id \in (IF callers = {} THEN IdentSetWide(probe) ELSE IdentSet(probe)),
        s0 \in (IF callers = {} THEN Sector0SetWide(probe) ELSE Sector0Set(probe)) :
       LET ch == probe \div 2
           sl == probe % 2
           dname == DiskDevname(devname, probe)
           pl == PartitionList(s0, dname)
           w1 == IdentifyWrites(sl)
           w2 == SetupIoWrites(sl, <<0, 0>>, 1)
       IN  /\ answers' = [answers EXCEPT ![probe] = [asked |-> TRUE, id |-> id]]
           /\ IF Admitted(id)
              THEN /\ disks' = [disks EXCEPT ![probe] =
                          [admitted |-> TRUE, channel |-> ch, slave |-> sl,
                           identification_space |->
                             [byte99 |-> id.byte99, lba28 |-> id.lba28,
                              lba48 |-> id.lba48],
                           addressable_sector_count |-> AddressableSectorCount(id),
                           devname |-> dname, sector0 |-> s0,
                           partition_list |-> pl]]
                   /\ devices' = (devices \o <<dname>>) \o PartNames(pl, 0)
                   /\ active_disk' = probe
                   /\ trace' = EmitAll(EmitAll(trace, ch, w1, 0), ch, w2, 0)
                   /\ hwreg' = [hwreg EXCEPT ![ch] = WriteAll(WriteAll(@, w1), w2)]
                   /\ status' = [status EXCEPT ![ch] =
                          IF ReadDuringSetupFails(s0.status) THEN s0.status ELSE StatusIdle]
                   /\ buffer' = buffer
              ELSE /\ trace' = EmitAll(trace, ch, w1, 0)
                   /\ hwreg' = [hwreg EXCEPT ![ch] = WriteAll(@, w1)]
                   /\ status' = [status EXCEPT ![ch] =
                          IF id.status = 0 THEN 0
                          ELSE IF id.alterr THEN StatusError ELSE StatusIdle]
                   /\ UNCHANGED <<disks, active_disk, buffer, devices>>
  /\ probe' = probe + 1
  /\ UNCHANGED <<irp, ctl, hw, irq, istreq, sched, panicked, th, callers, fixstr,
                 which_device, devname, pci>>

\* setup_controller reenabling the interrupts after the third disk position
SetupControllerEndEarly ==
  /\ probe = NumDiskPositions - 1
  /\ ctl' = [ch \in Channels |-> NIEN_ENABLE]
  /\ probe' = ProbeDone
  /\ UNCHANGED <<disks, active_disk, irp, buffer, hwreg, hw, status, irq, istreq,
                 sched, panicked, th, trace, callers, fixstr, which_device, devname, devices, pci, answers>>

\* setup_controller, after the probe loop: reenable the channels' interrupts
SetupControllerEnd ==
  /\ probe = NumDiskPositions
  /\ ctl' = [ch \in Channels |-> NIEN_ENABLE]
  /\ probe' = ProbeDone
  /\ UNCHANGED <<disks, active_disk, irp, buffer, hwreg, hw, status, irq, istreq,
                 sched, panicked, th, trace, callers, fixstr, which_device, devname, devices, pci, answers>>

-----------------------------------------------------------------------------
(* Block devices and the arguments of hdd_read *)

WholeDisk(d) == [kind |-> "WHOLEDISK", disk |-> d, part |-> 0]
Partition(d, i) == [kind |-> "PARTITION", disk |-> d, part |-> i]

\* the block devices device_create has registered
Devices ==
  {WholeDisk(d) : d \in {x \in DiskNums : disks[x].admitted}}
  \cup {Partition(pr[1], pr[2]) :
          pr \in {q \in DiskNums \X (0 .. 3) :
                    disks[q[1]].admitted /\ disks[q[1]].partition_list[q[2]].present}}

\* the ata_partition behind a partition handle
PartOf(dev) == disks[dev.disk].partition_list[dev.part]

\* adjust_blkno: the disk, the adjusted block number and the limit
adjust_blkno(dev, blkno) ==
  IF dev.kind = "WHOLEDISK"
  THEN [disk |-> dev.disk, blkno |-> blkno,
        limit |-> U64ToSizeT(disks[dev.disk].addressable_sector_count)]
  ELSE [disk |-> dev.disk, blkno |-> AddU32(blkno, PartOf(dev).start_lba),
        limit |-> PartOf(dev).sector_count]

\* hdd_read: the bounds check that makes it return EIO at once
OutOfBounds(blkno, sector_count, sector_limit) ==
  (blkno < 0) \/ GeU32(AddU32(blkno, sector_count), sector_limit)

\* the size of the next chunk with the limit taken one sector too small
TransferSectorCountShort(sector_count) ==
  IF sector_count > BUFFER_LENGTH_IN_SECTORS - 1 THEN BUFFER_LENGTH_IN_SECTORS - 1
  ELSE sector_count

\* hdd_read: the size of the next chunk
TransferSectorCount(sector_count) ==
  IF sector_count > BUFFER_LENGTH_IN_SECTORS THEN BUFFER_LENGTH_IN_SECTORS
  ELSE sector_count

\* a thread may run when the kernel is alive and no other thread has locked
\* the scheduler
CanRun(t) == ~panicked /\ sched \in {0, t}

\* the <<nbyte, blkno>> a single caller passes for a device
ReadArgs(dev) ==
  IF dev.kind = "WHOLEDISK"
  THEN IF dev.disk = 1
       THEN { <<SECTOR_SIZE, 0 - 1>>, <<SECTOR_SIZE, 0>>, <<100, 0>>,
              <<2 * BUFFER_LENGTH + 700, 305419896>>,
              <<SECTOR_SIZE, 399999999>>, <<SECTOR_SIZE, 399999998>> }
       ELSE { <<SECTOR_SIZE, 0>>,
              <<BUFFER_LENGTH + SECTOR_SIZE, 2147483647 - 100>> }
  ELSE IF dev.part = 0
       THEN { <<BUFFER_LENGTH, 0>>, <<2 * BUFFER_LENGTH, 100>>,
              <<SECTOR_SIZE, 999000>>, <<SECTOR_SIZE, 0 - 1>>,
              <<SECTOR_SIZE, 999999>> }
       ELSE { <<SECTOR_SIZE, 0>>, <<SECTOR_SIZE, 256>> }

\* the <<nbyte, blkno>> each of two concurrent callers passes for a device
ReadArgsNarrow(dev) ==
  IF dev.kind = "WHOLEDISK"
  THEN { <<SECTOR_SIZE, 0>> }
  ELSE IF dev.part = 0 THEN { <<SECTOR_SIZE, 100>> } ELSE {}

-----------------------------------------------------------------------------
(* hdd_read *)

\* hdd_read, lines 754-767: adjust, check the bounds, map the buffer
HddReadCall(t) ==
  /\ probe = ProbeDone
  /\ CanRun(t)
  /\ th[t].pc = "idle"
  /\ t \in callers
  /\ th[t].calls < (IF callers = {t} THEN MaxCallsSeq ELSE MaxCalls)
  /\ \E dev \in Devices, mapped \in BOOLEAN :
     \E arg \in (IF callers = {t} THEN ReadArgs(dev) ELSE ReadArgsNarrow(dev)) :
       LET nb == arg[1]
           b == arg[2]
           a == adjust_blkno(dev, b)
           sc == nb \div SECTOR_SIZE
           base == [th[t] EXCEPT !.calls = @ + 1, !.dev = dev, !.nbyte_in = nb,
                                 !.blkno_in = b, !.nbyte = nb, !.disk = a.disk,
                                 !.blkno = a.blkno, !.sector_count = sc,
                                 !.sector_limit = a.limit]
       IN  th' = [th EXCEPT ![t] =
                    IF OutOfBounds(a.blkno, sc, a.limit)
                    THEN [base EXCEPT !.pc = "done", !.ret = "EIO"]
                    ELSE IF ~mapped
                    THEN [base EXCEPT !.pc = "done", !.ret = "EFAULT"]
                    ELSE [base EXCEPT !.pc = "loop"]]
  /\ UNCHANGED <<probe, disks, active_disk, irp, buffer, ctl, hwreg, hw, status,
                 irq, istreq, sched, panicked, trace, callers, fixstr, which_device, devname, devices, pci, answers>>

\* hdd_read, lines 772-779 and hdd_rw, lines 709-714: the loop test, the size
\* of the chunk, and the fields of the controller's irp; or lines 794-795
HddReadLoop(t) ==
  /\ CanRun(t)
  /\ th[t].pc = "loop"
  /\ IF th[t].sector_count > 0
     THEN LET n == TransferSectorCount(th[t].sector_count)
          IN  /\ irp' = [cmd |-> IO_READ, error |-> 0, blkno |-> th[t].blkno,
                         blksz |-> n]
              /\ th' = [th EXCEPT ![t].pc = "rw_lock", ![t].tsc = n,
                                  ![t].wake = "NONE",
                                  ![t].subs = Append(@, n)]
     ELSE /\ th' = [th EXCEPT ![t].pc = "done", ![t].ret = "0",
                              ![t].nbyte = th[t].transferred_total]
          /\ irp' = irp
  /\ UNCHANGED <<probe, disks, active_disk, buffer, ctl, hwreg, hw, status, irq,
                 istreq, sched, panicked, trace, callers, fixstr, which_device, devname, devices, pci, answers>>

\* hdd_rw without the sched_lock call
HddRwNoLock(t) ==
  /\ CanRun(t)
  /\ th[t].pc = "rw_lock"
  /\ th' = [th EXCEPT ![t].pc = "io", ![t].iostep = 0,
                      ![t].io_lba = IntToU64(irp.blkno), ![t].io_cnt = irp.blksz]
  /\ UNCHANGED <<probe, disks, active_disk, irp, buffer, ctl, hwreg, hw, status,
                 irq, istreq, sched, panicked, trace, callers, fixstr, which_device, devname, devices, pci, answers>>

\* hdd_rw, lines 716-718: sched_lock, and the arguments of hdd_setup_io
HddRwLock(t) ==
  /\ CanRun(t)
  /\ th[t].pc = "rw_lock"
  /\ sched' = t
  /\ th' = [th EXCEPT ![t].pc = "io", ![t].iostep = 0,
                      ![t].io_lba = IntToU64(irp.blkno), ![t].io_cnt = irp.blksz]
  /\ UNCHANGED <<probe, disks, active_disk, irp, buffer, ctl, hwreg, hw, status,
                 irq, istreq, panicked, trace, callers, fixstr, which_device, devname, devices, pci, answers>>

\* hdd_setup_io: one register write; the first comes with active_disk = disk,
\* the last gives the device its command
HddSetupIo(t) ==
  /\ CanRun(t)
  /\ th[t].pc = "io"
  /\ LET d == disks[th[t].disk]
         ch == d.channel
         k == th[t].iostep + 1
         ws == SetupIoWrites(d.slave, th[t].io_lba, th[t].io_cnt)
         regs == WriteReg(hwreg[ch], ws[k][1], ws[k][2])
         cmd == HwCommand(regs, t)
     IN  /\ active_disk' = IF k = 1 THEN th[t].disk ELSE active_disk
         /\ trace' = Emit(trace, ch, ws[k][1], ws[k][2], t)
         /\ hwreg' = [hwreg EXCEPT ![ch] = regs]
         /\ IF k = Len(ws)
            THEN /\ hw' = [hw EXCEPT ![ch] = cmd]
                 /\ status' = [status EXCEPT ![ch] = ATA_STATUS_FLAG_BUSY]
                 /\ th' = [th EXCEPT ![t].pc = "sleep",
                                     ![t].cmds = Append(@, [ch |-> ch, slave |-> cmd.slave,
                                                            lba |-> cmd.lba,
                                                            count |-> cmd.count])]
            ELSE /\ th' = [th EXCEPT ![t].iostep = k]
                 /\ UNCHANGED <<hw, status>>
  /\ UNCHANGED <<probe, disks, irp, buffer, ctl, irq, istreq, sched, panicked,
                 callers, fixstr, which_device, devname, devices, pci, answers>>

\* sched_sleep giving up the scheduler lock in one step and parking the
\* caller in the next
SchedSleepUnlockFirst(t) ==
  /\ CanRun(t)
  /\ th[t].pc = "sleep"
  /\ IF sched = t
     THEN sched' = 0 /\ th' = th
     ELSE sched' = sched /\ th' = [th EXCEPT ![t].pc = "parked"]
  /\ UNCHANGED <<probe, disks, active_disk, irp, buffer, ctl, hwreg, hw, status,
                 irq, istreq, panicked, trace, callers, fixstr, which_device, devname, devices, pci, answers>>

\* hdd_rw, line 720: sched_sleep parks the caller on irp->iocomp and gives up
\* the scheduler lock in one step
SchedSleep(t) ==
  /\ CanRun(t)
  /\ th[t].pc = "sleep"
  /\ sched' = IF sched = t THEN 0 ELSE sched
  /\ th' = [th EXCEPT ![t].pc = "parked"]
  /\ UNCHANGED <<probe, disks, active_disk, irp, buffer, ctl, hwreg, hw, status,
                 irq, istreq, panicked, trace, callers, fixstr, which_device, devname, devices, pci, answers>>

\* the sleep of a parked caller is interrupted (an exception is raised for it)
Signal(t) ==
  /\ ~panicked
  /\ th[t].pc = "parked"
  /\ th' = [th EXCEPT ![t].pc = "woken", ![t].slpret = "SLP_INTR",
                      ![t].wake = "signal"]
  /\ UNCHANGED <<probe, disks, active_disk, irp, buffer, ctl, hwreg, hw, status,
                 irq, istreq, sched, panicked, trace, callers, fixstr, which_device, devname, devices, pci, answers>>

\* hdd_rw: the value it returns once sched_sleep has returned
HddRwResult(slpret, error) ==
  IF slpret = "SLP_INTR" THEN <<"EINTR">> ELSE <<"irp", error>>

\* hdd_read: what it returns when hdd_rw has returned a non-zero err
ChunkFailure(err) == "EIO"

\* hdd_rw, lines 720-727, and hdd_read, lines 780-784: the woken caller takes
\* its result, unlocks the scheduler, and hdd_read returns on an error
HddRwWake(t) ==
  /\ CanRun(t)
  /\ th[t].pc = "woken"
  /\ LET err == HddRwResult(th[t].slpret, irp.error)
     IN  th' = [th EXCEPT ![t] =
                  IF err # <<"irp", 0>>
                  THEN [@ EXCEPT !.pc = "done", !.err = err, !.ret = ChunkFailure(err),
                                 !.nbyte = th[t].transferred_total,
                                 !.cancelled = (@ \/ err = <<"EINTR">>)]
                  ELSE [@ EXCEPT !.pc = "copy", !.err = err]]
  /\ UNCHANGED <<probe, disks, active_disk, irp, buffer, ctl, hwreg, hw, status,
                 irq, istreq, sched, panicked, trace, callers, fixstr, which_device, devname, devices, pci, answers>>

\* hdd_read, lines 786-791: copy the bounce buffer out and advance
HddReadCopy(t) ==
  /\ CanRun(t)
  /\ th[t].pc = "copy"
  /\ th' = [th EXCEPT ![t].pc = "loop",
                      ![t].copied = Append(@, buffer),
                      ![t].transferred_total = @ + SECTOR_SIZE * th[t].tsc,
                      ![t].blkno = AddU32(@, th[t].tsc),
                      ![t].sector_count = @ - th[t].tsc]
  /\ UNCHANGED <<probe, disks, active_disk, irp, buffer, ctl, hwreg, hw, status,
                 irq, istreq, sched, panicked, trace, callers, fixstr, which_device, devname, devices, pci, answers>>

\* the caller has taken the result of hdd_read
HddReadReturn(t) ==
  /\ CanRun(t)
  /\ th[t].pc = "done"
  /\ th' = [th EXCEPT ![t] = [IdleThread EXCEPT !.calls = th[t].calls,
                                                !.cancelled = th[t].cancelled]]
  /\ UNCHANGED <<probe, disks, active_disk, irp, buffer, ctl, hwreg, hw, status,
                 irq, istreq, sched, panicked, trace, callers, fixstr, which_device, devname, devices, pci, answers>>

-----------------------------------------------------------------------------
(* The devices and the interrupt path *)

\* how a device may end a command: its status and its error register
HwOutcomes == {<<StatusReady, 0>>, <<StatusError, 4>>, <<StatusFault, 0>>}

\* the device on channel ch ends its command and, unless its interrupt is
\* disabled, raises it
HwReady(ch) ==
  /\ ~panicked
  /\ hw[ch].busy
  /\ status[ch] = ATA_STATUS_FLAG_BUSY
  /\ \E o \in HwOutcomes :
       /\ status' = [status EXCEPT ![ch] = o[1]]
       /\ hwreg' = [hwreg EXCEPT ![ch][ATA_REG_ERR] = <<0, o[2]>>]
  /\ irq' = IF ctl[ch] = NIEN_ENABLE THEN irq \cup {ch} ELSE irq
  /\ UNCHANGED <<probe, disks, active_disk, irp, buffer, ctl, hw, istreq, sched,
                 panicked, th, trace, callers, fixstr, which_device, devname, devices, pci, answers>>

\* hdc_isr with DRQ left out of the mask
IsrContinueNoDrq(st) ==
  \/ HasBit(st, ATA_STATUS_FLAG_DEVICE_FAILURE)
  \/ HasBit(st, ATA_STATUS_FLAG_ERROR)

\* hdc_isr: does it ask for the IST, given the altstatus it read
IsrContinue(st) ==
  \/ HasBit(st, ATA_STATUS_FLAG_DRQ)
  \/ HasBit(st, ATA_STATUS_FLAG_DEVICE_FAILURE)
  \/ HasBit(st, ATA_STATUS_FLAG_ERROR)

\* hdc_isr.  With active_disk not pointing to a disk, disk->channel is read
\* through a null or wild pointer: the kernel faults, or some port is read.
HdcIsr ==
  /\ ~panicked
  /\ \E ch \in irq :
       /\ irq' = irq \ {ch}
       /\ IF active_disk \in DiskNums
          THEN /\ istreq' = IF IsrContinue(status[disks[active_disk].channel])
                            THEN istreq + 1 ELSE istreq
               /\ panicked' = panicked
          ELSE \/ /\ panicked' = TRUE
                  /\ istreq' = istreq
               \/ /\ panicked' = panicked
                  /\ \E c \in Channels :
                       istreq' = IF IsrContinue(status[c]) THEN istreq + 1 ELSE istreq
  /\ UNCHANGED <<probe, disks, active_disk, irp, buffer, ctl, hwreg, hw, status,
                 sched, th, trace, callers, fixstr, which_device, devname, devices, pci, answers>>

\* hdc_ist: the error word recorded for a failed command
ErrorWord(st, err) == (st - TwoTo15) * TwoTo16 + err

\* hdc_ist: is the command taken as failed
IstError(st) ==
  HasBit(st, ATA_STATUS_FLAG_ERROR) \/ HasBit(st, ATA_STATUS_FLAG_DEVICE_FAILURE)

\* sched_wakeup(&irp->iocomp): every thread parked on the event becomes runnable
\* (wake notes which path of the IST made the call)
Wakeup(T, how) ==
  [t \in Threads |->
     IF T[t].pc = "parked"
     THEN [T[t] EXCEPT !.pc = "woken", !.slpret = "0", !.wake = how]
     ELSE T[t]]

\* ata_pio_read in hdc_ist: what n sectors' worth of reads of the data port
\* of channel ch yield
PioRead(ch, n) ==
  IF hw[ch].busy /\ HasBit(status[ch], ATA_STATUS_FLAG_DRQ)
  THEN [valid |-> TRUE, disk |-> 2 * ch + hw[ch].slave, lba |-> hw[ch].lba,
        count |-> hw[ch].count, n |-> n]
  ELSE NoData

\* hdc_ist on channel ch
IstBody(ch) ==
  LET st == status[ch]
  IN  /\ active_disk' = NULL
      /\ IF IstError(st)
         THEN /\ irp' = [irp EXCEPT !.error = ErrorWord(st, hwreg[ch][ATA_REG_ERR][2])]
              /\ th' = Wakeup(th, "error")
              /\ hw' = [hw EXCEPT ![ch] = NoCmd]
              /\ UNCHANGED <<buffer, status, panicked>>
         ELSE IF irp.cmd = IO_READ
         THEN /\ irp' = [irp EXCEPT !.error = 0]
              /\ buffer' = PioRead(ch, irp.blksz)
              /\ th' = Wakeup(th, "data")
              /\ IF HasBit(st, ATA_STATUS_FLAG_DRQ)
                 THEN /\ hw' = [hw EXCEPT ![ch] = NoCmd]
                      /\ status' = [status EXCEPT ![ch] = StatusIdle]
                 ELSE UNCHANGED <<hw, status>>
              /\ panicked' = panicked
         ELSE /\ irp' = [irp EXCEPT !.error = 0]
              /\ panicked' = TRUE
              /\ UNCHANGED <<buffer, th, hw, status>>

\* hdc_ist, run by the interrupt thread when the ISR has asked for it and the
\* scheduler is not locked.  With active_disk not pointing to a disk the
\* kernel faults, or some channel's ports are read.
HdcIst ==
  /\ ~panicked
  /\ istreq > 0
  /\ sched = 0
  /\ istreq' = istreq - 1
  /\ IF active_disk \in DiskNums
     THEN IstBody(disks[active_disk].channel)
     ELSE \/ /\ panicked' = TRUE
             /\ UNCHANGED <<active_disk, irp, buffer, th, hw, status>>
          \/ \E c \in Channels : IstBody(c)
  /\ UNCHANGED <<probe, disks, ctl, hwreg, irq, sched, trace, callers, fixstr, which_device, devname, devices, pci, answers>>

\* the lists of PCI devices hdd_init may find: of each device, whether it is
\* an IDE controller (class_code PCI_CLASS_STORAGE, subclass 1)
RECURSIVE PciLists(_)
PciLists(n) ==
  IF n = 0 THEN {<<>>}
  ELSE PciLists(n - 1)
         \cup {<<k>> \o l : k \in {"IDE", "OTHER"},
                             l \in {x \in PciLists(n - 1) : Len(x) = n - 1}}

\* hdd_init is entered: no controller has been set up, which_device is '0'
InitProbe ==
  /\ probe = ProbeDone
  /\ disks = [d \in DiskNums |-> NoDisk]
  /\ active_disk = NULL
  /\ irp = [cmd |-> IO_NONE, error |-> 0, blkno |-> 0, blksz |-> 0]
  /\ buffer = NoData
  /\ ctl = [ch \in Channels |-> NIEN_ENABLE]
  /\ hwreg = [ch \in Channels |-> NoRegs]
  /\ hw = [ch \in Channels |-> NoCmd]
  /\ status = [ch \in Channels |-> 0]
  /\ irq = {}
  /\ istreq = 0
  /\ sched = 0
  /\ panicked = FALSE
  /\ th = [t \in Threads |-> IdleThread]
  /\ trace = <<>>
  /\ callers = {}
  /\ fixstr = NoFixup
  /\ which_device = 48
  /\ devname = <<>>
  /\ devices = <<>>
  /\ pci \in PciLists(MaxPci)
  /\ answers = [d \in DiskNums |-> NoAnswer]

\* hdd_init, lines 679-686: the next PCI device is no IDE controller
HddInitSkip ==
  /\ probe = ProbeDone
  /\ pci # <<>>
  /\ Head(pci) # "IDE"
  /\ pci' = Tail(pci)
  /\ UNCHANGED <<probe, disks, active_disk, irp, buffer, ctl, hwreg, hw, status,
                 irq, istreq, sched, panicked, th, trace, callers, fixstr,
                 which_device, devname, devices, answers>>

\* hdd_init, lines 679-686, and setup_controller, lines 557-662: the next PCI
\* device is an IDE controller; it is named, allocated, and the interrupts of
\* its channels are disabled
SetupControllerStart ==
  /\ probe = ProbeDone
  /\ pci # <<>>
  /\ Head(pci) = "IDE"
  /\ pci' = Tail(pci)
  /\ devname' = ControllerDevname(which_device)
  /\ which_device' = which_device + 1
  /\ probe' = 0
  /\ disks' = [d \in DiskNums |-> NoDisk]
  /\ active_disk' \in {NULL, Uninit}
  /\ irp' = [cmd |-> IO_NONE, error |-> 0, blkno |-> 0, blksz |-> 0]
  /\ buffer' = NoData
  /\ ctl' = [ch \in Channels |-> NIEN_DISABLE]
  /\ hwreg' = [ch \in Channels |-> NoRegs]
  /\ hw' = [ch \in Channels |-> NoCmd]
  /\ status' = [ch \in Channels |-> 0]
  /\ trace' = <<>>
  /\ answers' = [d \in DiskNums |-> NoAnswer]
  /\ UNCHANGED <<irq, istreq, sched, panicked, th, callers, fixstr, devices>>

\* setup_disk, lines 485-487: a string field copied out of the
\* identification space
InitFixup ==
  /\ InitWith({})
  /\ active_disk = NULL
  /\ \E q \in FixupInputs : fixstr = [orig |-> q, p |-> q, n |-> 0]

\* one call of fixup_string_endianness on the field
FixupString ==
  /\ fixstr.n < MaxFixups
  /\ fixstr' = [fixstr EXCEPT !.p = fixup_string_endianness(@), !.n = @ + 1]
  /\ UNCHANGED <<probe, disks, active_disk, irp, buffer, ctl, hwreg, hw, status,
                 irq, istreq, sched, panicked, th, trace, callers, which_device,
                 devname, devices, pci, answers>>

-----------------------------------------------------------------------------
(* Specifications *)

Next ==
  \/ SetupDisk
  \/ SetupControllerEnd
  \/ \E t \in Threads : HddReadCall(t)
  \/ \E t \in Threads : HddReadLoop(t)
  \/ \E t \in Threads : HddRwLock(t)
  \/ \E t \in Threads : HddSetupIo(t)
  \/ \E t \in Threads : SchedSleep(t)
  \/ \E t \in Threads : Signal(t)
  \/ \E t \in Threads : HddRwWake(t)
  \/ \E t \in Threads : HddReadCopy(t)
  \/ \E t \in Threads : HddReadReturn(t)
  \/ \E ch \in Channels : HwReady(ch)
  \/ HdcIsr
  \/ HdcIst

\* two caller threads
Spec == Init /\ [][Next]_vars

\* one caller thread
SpecSeq == InitSeq /\ [][Next]_vars

\* fixup_string_endianness applied to a string field
SpecFixup == InitFixup /\ [][FixupString]_vars

\* hdd_init: the probe of every IDE controller of a list of PCI devices
NextProbe ==
  \/ HddInitSkip
  \/ SetupControllerStart
  \/ SetupDisk
  \/ SetupControllerEnd

SpecProbe == InitProbe /\ [][NextProbe]_vars

\* the steps of the caller threads other than the delivery of a signal
CallerStep ==
  \/ \E t \in Threads : HddReadCall(t)
  \/ \E t \in Threads : HddReadLoop(t)
  \/ \E t \in Threads : HddRwLock(t)
  \/ \E t \in Threads : HddSetupIo(t)
  \/ \E t \in Threads : SchedSleep(t)
  \/ \E t \in Threads : HddRwWake(t)
  \/ \E t \in Threads : HddReadCopy(t)
  \/ \E t \in Threads : HddReadReturn(t)

\* no signal is delivered to a sleeping caller
NextNoSignal ==
  \/ SetupDisk
  \/ SetupControllerEnd
  \/ CallerStep
  \/ \E ch \in Channels : HwReady(ch)
  \/ HdcIsr
  \/ HdcIst

\* one caller thread and no signal; a runnable caller is eventually run, every
\* command is eventually ended by its device with an interrupt, every
\* interrupt is eventually taken by the ISR, and the IST is eventually
\* dispatched when the ISR has asked for it
SpecLive ==
  /\ InitSeq
  /\ [][NextNoSignal]_vars
  /\ WF_vars(SetupDisk \/ SetupControllerEnd)
  /\ WF_vars(CallerStep)
  /\ WF_vars(\E ch \in Channels : HwReady(ch))
  /\ WF_vars(HdcIsr)
  /\ WF_vars(HdcIst)

-----------------------------------------------------------------------------
(* Claims *)

\* a caller whose command has been issued and who has not been woken
Outstanding(t) == th[t].pc \in {"sleep", "parked"}

\* the mathematical value of a uint64_t with a small high word
BigOfU64(v) == <<v[1] * TwoTo16 + BigU(v[2])[1], BigU(v[2])[2]>>

RECURSIVE SumSeq(_)
SumSeq(q) == IF q = <<>> THEN 0 ELSE Head(q) + SumSeq(Tail(q))

\* C1: between the issue of a caller's command and that caller's wake-up no
\* other caller re-initialises the controller's irp or issues a command: at
\* most one request is outstanding on the controller.
C1_SingleOutstanding ==
  \A t \in Threads : \A u \in Threads \ {t} :
    ~(Outstanding(t) /\ th[u].pc \in {"rw_lock", "io", "sleep", "parked"})

\* C2: once setup_controller has ended, active_disk is non-null exactly when
\* a device holds a command that was issued and has not completed.
C2_ActiveIffInFlight ==
  probe = ProbeDone =>
    ((active_disk # NULL) <=> (\E ch \in Channels : hw[ch].busy))

\* C3: register writes of different requests never interleave: a caller
\* writes registers only while it holds the scheduler lock, and in the window
\* of writes the writer changes only between the command write that ends one
\* sequence and the DISK_SELECT write that begins the next.
C3_NoInterleave ==
  /\ \A t \in Threads : th[t].pc \in {"io", "sleep"} => sched = t
  /\ \A i \in 1 .. (Len(trace) - 1) :
       \/ /\ trace[i].by = trace[i + 1].by
          /\ trace[i].ch = trace[i + 1].ch
          /\ trace[i].reg # ATA_REG_COMMAND_STATUS
          /\ trace[i + 1].reg # ATA_REG_DISK_SELECT
       \/ /\ trace[i].reg = ATA_REG_COMMAND_STATUS
          /\ trace[i + 1].reg = ATA_REG_DISK_SELECT

\* two callers overlap: one is parked on its command while the other is in
\* the middle of its register writes
C3_Witness ==
  \E t \in Threads : \E u \in Threads \ {t} :
    th[t].pc = "parked" /\ th[u].pc = "io" /\ th[u].iostep = 5

\* the register writes a read of (lba, count) must make after DISK_SELECT,
\* lba being <<high word, low word>>
NineWrites(lba, count) ==
  << <<ATA_REG_SECTOR_COUNT, (count \div 256) % 256>>,
     <<ATA_REG_LBA_LOW, (lba[2] \div 16777216) % 256>>,
     <<ATA_REG_LBA_MID, lba[1] % 256>>,
     <<ATA_REG_LBA_HIGH, (lba[1] \div 256) % 256>>,
     <<ATA_REG_SECTOR_COUNT, count % 256>>,
     <<ATA_REG_LBA_LOW, lba[2] % 256>>,
     <<ATA_REG_LBA_MID, (lba[2] \div 256) % 256>>,
     <<ATA_REG_LBA_HIGH, (lba[2] \div 65536) % 256>>,
     <<ATA_REG_COMMAND_STATUS, 36>> >>

\* C4: when a caller has just issued the read of (lba, count) on a disk, the
\* latest writes on the disk's channel are DISK_SELECT <- 0x40 | (slave << 4)
\* followed by exactly the nine writes of the LBA48 sequence, in order.
C4_RegisterOrder ==
  \A t \in Threads :
    th[t].pc = "sleep" =>
      /\ Len(trace) = 10
      /\ \A i \in 1 .. 10 : trace[i].ch = disks[th[t].disk].channel
      /\ trace[1].reg = ATA_REG_DISK_SELECT
      /\ trace[1].val = 64 + (IF disks[th[t].disk].slave = 1 THEN 16 ELSE 0)
      /\ \A i \in 1 .. 9 :
           <<trace[i + 1].reg, trace[i + 1].val>>
             = NineWrites(th[t].io_lba, th[t].io_cnt)[i]

\* a read has been issued whose LBA has four different non-zero low bytes
C4_Witness ==
  \E t \in Threads :
    /\ th[t].pc = "sleep"
    /\ th[t].io_lba = <<0, 305419896>>
    /\ th[t].io_cnt = BUFFER_LENGTH_IN_SECTORS

\* C5: an hdd_read that passed the bounds check and whose chunks all
\* succeeded made ceil((nbyte / 512) / 128) submissions, each of 1 to 128
\* sectors, which sum to nbyte / 512.
C5_Chunking ==
  \A t \in Threads :
    (th[t].pc = "done" /\ th[t].ret = "0") =>
      LET n == th[t].nbyte_in \div 512
      IN  /\ Len(th[t].subs) = (n + 127) \div 128
          /\ \A i \in 1 .. Len(th[t].subs) : th[t].subs[i] >= 1 /\ th[t].subs[i] <= 128
          /\ SumSeq(th[t].subs) = n
          /\ (th[t].nbyte_in < 512 => th[t].subs = <<>>)

\* a read of 257 sectors has succeeded in three submissions
C5_Witness ==
  \E t \in Threads :
    /\ th[t].pc = "done" /\ th[t].ret = "0"
    /\ th[t].nbyte_in = 2 * BUFFER_LENGTH + 700
    /\ Len(th[t].subs) = 3

\* the limit of a device: addressable_sector_count or the partition's
\* sector_count, as a mathematical value
LimitOf(dev) ==
  IF dev.kind = "WHOLEDISK"
  THEN BigOfU64(disks[dev.disk].addressable_sector_count)
  ELSE BigU(PartOf(dev).sector_count)

\* C6: hdd_read fails its bounds check with EIO exactly when the caller's
\* device-relative blkno is negative or blkno + nbyte / 512 >= limit(dev).
C6_BoundsIff ==
  \A t \in Threads :
    (th[t].calls > 0 /\ th[t].pc # "idle") =>
      LET n == th[t].nbyte_in \div 512
          b == th[t].blkno_in
      IN  (th[t].pc = "done" /\ th[t].ret = "EIO" /\ th[t].subs = <<>>)
            <=> (b < 0 \/ ~BLess(BAdd(Big(b), Big(n)), LimitOf(th[t].dev)))

\* C7: the k-th command of an accepted read at blkno b of a partition with
\* start_lba S is issued with LBA S + b + 128 * k on the channel and slave of
\* the partition's disk.
C7_PartitionRebase ==
  \A t \in Threads :
    th[t].dev.kind = "PARTITION" =>
      \A k \in 1 .. Len(th[t].cmds) :
        LET c == th[t].cmds[k]
            d == disks[th[t].dev.disk]
        IN  /\ c.ch = d.channel
            /\ c.slave = d.slave
            /\ c.lba[1] = 0
            /\ BigU(c.lba[2])
                 = BAdd(BAdd(BigU(PartOf(th[t].dev).start_lba), Big(th[t].blkno_in)),
                        Big(128 * (k - 1)))

\* C8: a read whose sleep returned SLP_INTR returns EINTR.
C8_InterruptedReturnsEINTR ==
  \A t \in Threads :
    (th[t].pc = "done" /\ th[t].wake = "signal" /\ th[t].subs # <<>>)
      => th[t].ret = "EINTR"

\* C9: whenever hdd_read returns an error, *nbyte is the number of bytes
\* copied into the caller's buffer: 65536 for each chunk copied.
C9_ShortRead ==
  \A t \in Threads :
    (th[t].pc = "done" /\ th[t].ret # "0")
      => th[t].nbyte = BUFFER_LENGTH * Len(th[t].copied)

\* C10: a caller woken by the error path of the IST ends its read with EIO
\* and issues no further command.
C10_ErrorEndsRead ==
  \A t \in Threads :
    th[t].wake = "error" =>
      \/ th[t].pc = "woken"
      \/ th[t].pc = "done" /\ th[t].ret = "EIO"

\* the channels whose altstatus hdc_isr may read: the channel of the active
\* disk, or any when active_disk points to no disk
IsrChannels ==
  IF active_disk \in DiskNums THEN {disks[active_disk].channel} ELSE Channels

\* one of DRQ (0x08), DEVICE_FAILURE (0x20), ERROR (0x01) is set in st
AnyOfDrqDfErr(st) ==
  (st \div 8) % 2 = 1 \/ (st \div 32) % 2 = 1 \/ st % 2 = 1

\* C11: a run of the ISR (an interrupt is taken off the line) asks for one
\* more IST dispatch exactly when the altstatus it reads has DRQ,
\* DEVICE_FAILURE or ERROR set; otherwise it asks for none; in both cases it
\* leaves the irp, active_disk and the bounce buffer as they were.
C11_IsrDispatch ==
  [][(irq' # irq /\ irq' \subseteq irq /\ ~panicked') =>
       /\ irp' = irp /\ active_disk' = active_disk /\ buffer' = buffer
       /\ \E c \in IsrChannels :
            IF AnyOfDrqDfErr(status[c]) THEN istreq' = istreq + 1
            ELSE istreq' = istreq]_vars

\* the interrupt of channel 0 has been served while the active disk was on
\* channel 1 and still busy: the ISR has returned 0, the completed command of
\* channel 0 is untouched and no IST is pending
C11_Witness ==
  /\ irq = {} /\ istreq = 0 /\ ~panicked
  /\ hw[0].busy /\ status[0] = StatusReady
  /\ hw[1].busy /\ status[1] = ATA_STATUS_FLAG_BUSY
  /\ active_disk \in DiskNums /\ disks[active_disk].channel = 1

\* C12: a caller woken by the IST, when it runs again to take its result,
\* finds active_disk null and in irp->error the value the IST stored for the
\* completed command: non-zero from the error path, zero from the data path.
C12_WokenSeesNull ==
  \A t \in Threads :
    (th[t].pc = "woken" /\ th[t].wake \in {"data", "error"} /\ CanRun(t)) =>
      /\ active_disk = NULL
      /\ (th[t].wake = "error") <=> (irp.error # 0)

\* C13: the addressable_sector_count of every admitted disk is the 64-bit
\* lba48_count of its identification space when the 32-bit lba28_count found
\* there is 0x0fffffff, and the lba28_count (zero-extended) otherwise.
C13_SectorCount ==
  \A d \in DiskNums :
    disks[d].admitted =>
      LET id == disks[d].identification_space
      IN  disks[d].addressable_sector_count =
            IF id.lba28 = 268435455 THEN id.lba48 ELSE <<0, id.lba28>>

\* the probe has admitted a disk whose lba28_count is the maximum and one
\* whose lba28_count is smaller and differs from its lba48 area
C13_Witness ==
  /\ probe = ProbeDone
  /\ \E d \in DiskNums :
       disks[d].admitted /\ disks[d].identification_space.lba28 = 268435455
  /\ \E d \in DiskNums :
       /\ disks[d].admitted
       /\ disks[d].identification_space.lba28 # 268435455
       /\ disks[d].identification_space.lba48 # <<0, disks[d].identification_space.lba28>>

\* C14: one application of the 16-bit-word swap to an even-length string
\* exchanges bytes 2i and 2i+1 for every i and keeps the length; two
\* applications give the original string back.
C14_FixupInvolution ==
  /\ Len(fixstr.p) = Len(fixstr.orig)
  /\ fixstr.n = 1 =>
       \A i \in 0 .. ((Len(fixstr.orig) \div 2) - 1) :
         /\ fixstr.p[2 * i + 1] = fixstr.orig[2 * i + 2]
         /\ fixstr.p[2 * i + 2] = fixstr.orig[2 * i + 1]
  /\ fixstr.n = 2 => fixstr.p = fixstr.orig

\* a 40-byte model string of pairwise different bytes has been swapped twice
C14_Witness ==
  /\ fixstr.n = 2
  /\ Len(fixstr.orig) = 40
  /\ \A i \in 1 .. 39 : fixstr.orig[i] # fixstr.orig[i + 1]
  /\ fixstr.orig[3] # fixstr.orig[1]

\* C15: the partitions of an admitted disk are none when the read of sector 0
\* failed or the word at offset 510 is not 0xaa55; otherwise there is one
\* for each slot i whose start_lba, sector_count and system_id are all
\* non-zero, with the slot's values and the name of the disk followed by
\* 'p' and the two decimal digits of i.
C15_Partitions ==
  \A d \in DiskNums :
    disks[d].admitted =>
      LET s0 == disks[d].sector0
          failed == (s0.status % 2 = 1) \/ ((s0.status \div 32) % 2 = 1)
      IN  \A i \in 0 .. 3 :
            LET slot == s0.slots[i + 1]
                part == disks[d].partition_list[i]
            IN  IF failed \/ s0.sig # 43605
                   \/ slot.start_lba = 0 \/ slot.sector_count = 0
                   \/ slot.system_id = 0
                THEN ~part.present
                ELSE /\ part.present
                     /\ part.system_id = slot.system_id
                     /\ part.start_lba = slot.start_lba
                     /\ part.sector_count = slot.sector_count
                     /\ part.devname
                          = disks[d].devname \o <<112, 48 + (i \div 10), 48 + (i % 10)>>

\* a disk has been probed whose table has a partition in slot 3 and none in
\* slots 0 to 2, another whose sector 0 has four partitions, one whose sector
\* 0 could not be read and one whose signature is wrong
C15_Witness ==
  /\ \E d \in DiskNums :
       /\ disks[d].admitted
       /\ disks[d].partition_list[3].present
       /\ \A i \in 0 .. 2 : ~disks[d].partition_list[i].present
  /\ \E d \in DiskNums :
       disks[d].admitted /\ \A i \in 0 .. 3 : disks[d].partition_list[i].present
  /\ \E d \in DiskNums :
       /\ disks[d].admitted
       /\ disks[d].sector0.status = StatusFault
       /\ disks[d].sector0.sig = 43605
  /\ \E d \in DiskNums :
       /\ disks[d].admitted
       /\ disks[d].sector0.status = StatusReady
       /\ disks[d].sector0.sig # 43605
       /\ disks[d].sector0.slots[1].system_id # 0

\* the registered names are pairwise distinct and are "hd<N>d<K>" or
\* "hd<N>d<K>p<PP>"; every admitted disk of the controller being probed is
\* registered under the controller's three characters, 'd' and the digit of
\* (channel << 1) | slave, and its partitions under their names
NamesWellFormed ==
  /\ \A i \in 1 .. Len(devices) : \A j \in 1 .. Len(devices) :
       i # j => devices[i] # devices[j]
  /\ \A i \in 1 .. Len(devices) :
       LET n == devices[i]
       IN  /\ Len(n) \in {5, 8}
           /\ n[1] = 104 /\ n[2] = 100 /\ n[4] = 100
           /\ n[5] \in 48 .. 51
           /\ Len(n) = 8 => (n[6] = 112 /\ n[7] = 48 /\ n[8] \in 48 .. 51)
  /\ \A d \in DiskNums :
       disks[d].admitted =>
         /\ disks[d].devname
              = <<104, 100, devname[3], 100,
                  48 + (2 * disks[d].channel + disks[d].slave)>>
         /\ \E i \in 1 .. Len(devices) : devices[i] = disks[d].devname
         /\ \A k \in 0 .. 3 :
              disks[d].partition_list[k].present =>
                \E i \in 1 .. Len(devices) :
                  devices[i] = disks[d].partition_list[k].devname

C17_Admission ==
  /\ \A d \in DiskNums :
       /\ (d < probe /\ devname # <<>>) => answers[d].asked
       /\ answers[d].asked =>
            LET a == answers[d].id
                ok == /\ a.status # 0
                      /\ ~a.alterr
                      /\ (a.byte99 \div 2) % 2 = 1
                      /\ a.byte99 % 2 = 1
                name == <<104, 100, devname[3], 100, 48 + d>>
                registered ==
                  \E i \in 1 .. Len(devices) : SubSeq(devices[i], 1, 5) = name
            IN  /\ disks[d].admitted <=> ok
                /\ registered <=> ok
                /\ probe = d + 1 =>
                     hwreg[d \div 2][ATA_REG_COMMAND_STATUS][2]
                       = IF ok THEN 36 ELSE 236
  /\ probe \in DiskNums \cup {NumDiskPositions, ProbeDone}

\* a controller has been probed whose position 0 failed IDENTIFY, whose
\* position 2 lacks DMA, and whose positions 1 and 3 have been admitted
C17_Witness ==
  /\ probe = ProbeDone
  /\ answers[0].asked /\ answers[0].id.alterr
  /\ answers[2].asked /\ answers[2].id.byte99 = 2 /\ answers[2].id.status # 0
  /\ disks[1].admitted /\ disks[3].admitted
  /\ ~disks[0].admitted /\ ~disks[2].admitted

\* C18: while a controller is probed the control registers of both channels
\* hold 0x02: every IDENTIFY and sector-0 read is sent with the device
\* interrupts disabled; 0x00 is written only when all four positions have
\* been probed; and the probe never sleeps: no thread is parked, no interrupt
\* is raised and no IST is asked for before the probe has ended.
C18_ProbeInterruptsOff ==
  /\ [](probe \in 0 .. NumDiskPositions =>
         /\ \A ch \in Channels : ctl[ch] = 2
         /\ \A t \in Threads : th[t].pc = "idle"
         /\ irq = {} /\ istreq = 0 /\ sched = 0)
  /\ [][(trace' # trace /\ probe \in DiskNums) =>
          \A ch \in Channels : ctl[ch] = 2 /\ ctl'[ch] = 2]_vars
  /\ [][(\E ch \in Channels : ctl'[ch] # ctl[ch] /\ ctl'[ch] = 0) =>
          /\ probe = NumDiskPositions
          /\ \A d \in DiskNums : answers[d].asked
          /\ \A ch \in Channels : ctl'[ch] = 0]_vars

\* the interrupts have been enabled again after a probe whose fourth position
\* was admitted and read for its partition table
C18_Witness ==
  /\ probe = ProbeDone /\ devname # <<>>
  /\ \A ch \in Channels : ctl[ch] = 0
  /\ disks[3].admitted
  /\ trace # <<>> /\ trace[Len(trace)].val = 36

\* C19: after a read of a caller was cancelled by SLP_INTR, a chunk of its
\* next read that is taken as read holds the data of the command issued for
\* that chunk: the sectors of that disk, LBA and count.
C19_RecoversAfterCancel ==
  \A t \in Threads :
    (th[t].cancelled /\ th[t].pc = "copy" /\ callers = {t}) =>
      LET c == th[t].cmds[Len(th[t].cmds)]
      IN  /\ buffer.valid
          /\ buffer.disk = th[t].disk
          /\ buffer.lba = c.lba
          /\ buffer.count = c.count
          /\ buffer.n = th[t].tsc

\* C20: the IST never stores into irp->error or the bounce buffer while a
\* caller woken by a completion has yet to read irp->error, or while a caller
\* is copying the bounce buffer into its own buffer.
C20_BufferExclusion ==
  [][(istreq' = istreq - 1 /\ ~panicked') =>
       \A t \in Threads :
         /\ th[t].pc # "copy"
         /\ ~(th[t].pc = "woken" /\ th[t].slpret # "SLP_INTR")]_vars

\* the command the caller issued last is still executing in its device: the
\* device has not ended it and has raised no interrupt for it
OwnCommandPending(t) ==
  /\ th[t].cmds # <<>>
  /\ LET c == th[t].cmds[Len(th[t].cmds)]
     IN  /\ hw[c.ch].busy /\ hw[c.ch].by = t
         /\ status[c.ch] = ATA_STATUS_FLAG_BUSY
         /\ c.ch \notin irq

\* C21: there is no request-level timeout: as long as the completion
\* interrupt of a caller's command has not been delivered and its sleep has
\* not been interrupted by a signal, the caller stays in hdd_rw, asleep on the
\* completion event; its read does not go on or return.
C21_LostInterruptWedges ==
  \A t \in Threads :
    (OwnCommandPending(t) /\ th[t].slpret # "SLP_INTR")
      => th[t].pc \in {"sleep", "parked"}

\* C22: for a whole-disk handle the limit hdd_read checks against is the
\* disk's 64-bit addressable_sector_count, whatever its value, and the start
\* block is the caller's blkno.
C22_WholeDiskLimit ==
  \A t \in Threads :
    (th[t].pc \in {"loop", "done"} /\ th[t].subs = <<>>
       /\ th[t].dev.kind = "WHOLEDISK") =>
      /\ BigU(th[t].sector_limit)
           = BigOfU64(disks[th[t].dev.disk].addressable_sector_count)
      /\ th[t].blkno = th[t].blkno_in

\* C23: no wake-up is lost: a caller holds the scheduler lock from before its
\* first register write until sched_sleep has parked it, and the IST (with its
\* sched_wakeup) never runs while a caller is between the start of its
\* register writes and its being parked, even when the interrupt of the
\* command has been taken by the ISR in that interval.
C23_NoLostWakeup ==
  /\ [](\A t \in Threads : th[t].pc \in {"io", "sleep"} => sched = t)
  /\ [][(istreq' = istreq - 1) =>
          \A t \in Threads : th[t].pc \notin {"io", "sleep"}]_vars

\* the device has ended the first command of a caller and the ISR has asked
\* for the IST while the caller has issued the command and is not yet parked
C23_Witness ==
  \E t \in Threads :
    /\ th[t].pc = "sleep" /\ Len(th[t].cmds) = 1 /\ th[t].calls = 1
    /\ istreq = 1 /\ irq = {} /\ ~panicked
    /\ active_disk = th[t].disk
    /\ status[disks[th[t].disk].channel] = StatusReady

\* the absolute start block of a read: the caller's blkno, plus the start_lba
\* of the partition for a partition handle, as a mathematical value
AbsoluteStart(t) ==
  IF th[t].dev.kind = "WHOLEDISK" THEN Big(th[t].blkno_in)
  ELSE BAdd(BigU(PartOf(th[t].dev).start_lba), Big(th[t].blkno_in))

\* C24: with a single caller and no cancellation, an hdd_read that returns 0
\* has copied one chunk per command, in ascending order; chunk k is what the
\* IST drained for the command of that chunk: all the sectors, 128 a chunk,
\* of the disk from the absolute start block A + 128 * k on; and *nbyte is
\* 512 * (nbyte / 512).
C24_ReadData ==
  \A t \in Threads :
    (callers = {t} /\ ~th[t].cancelled /\ th[t].pc = "done" /\ th[t].ret = "0") =>
      /\ th[t].nbyte = 512 * (th[t].nbyte_in \div 512)
      /\ Len(th[t].copied) = Len(th[t].subs)
      /\ SumSeq(th[t].subs) = th[t].nbyte_in \div 512
      /\ \A k \in 1 .. Len(th[t].copied) :
           LET b == th[t].copied[k]
           IN  /\ b.valid
               /\ b.disk = th[t].dev.disk
               /\ b.count = th[t].subs[k] /\ b.n = th[t].subs[k]
               /\ BigOfU64(b.lba) = BAdd(AbsoluteStart(t), Big(128 * (k - 1)))

\* every hdd_read call that has been entered eventually returns
C25_EveryReadReturns ==
  \A t \in Threads : (th[t].pc # "idle") ~> (th[t].pc = "done")

\* C25: with a single caller, no signal, every command ended by its device
\* with an interrupt and the IST dispatched whenever it is asked for, every
\* hdd_read call eventually returns, and when it returns the controller is
\* idle: active_disk is null.
C25_Liveness ==
  /\ C25_EveryReadReturns
  /\ [](\A t \in Threads : th[t].pc = "done" => active_disk = NULL)

\* C26: whenever the ISR runs (an interrupt is taken off the line) or the IST
\* runs (a request for it is consumed), active_disk points to a disk of the
\* controller: disk->channel is never read through a null or uninitialised
\* pointer.
C26_ActiveDiskValid ==
  [][((irq' # irq /\ irq' \subseteq irq) \/ istreq' = istreq - 1)
       => (active_disk \in DiskNums /\ disks[active_disk].admitted)]_vars

\* C27: every command issued for a read on a partition with start_lba S and
\* sector_count N addresses absolute LBAs inside [S, S + N) only.
C27_PartitionContainment ==
  \A t \in Threads :
    th[t].dev.kind = "PARTITION" =>
      \A k \in 1 .. Len(th[t].cmds) :
        LET c == th[t].cmds[k]
            S == BigU(PartOf(th[t].dev).start_lba)
            N == BigU(PartOf(th[t].dev).sector_count)
            first == BigOfU64(c.lba)
        IN  /\ ~BLess(first, S)
            /\ ~BLess(BAdd(S, N), BAdd(first, Big(c.count)))

\* C28: a completion is attributed to the command it belongs to: a single
\* caller one of whose reads was cancelled by SLP_INTR is woken for a later
\* request by the IST only when the device has ended the command of that
\* request, and the bounce buffer it then copies from does not hold the
\* sectors of another command.
C28_CompletionAttribution ==
  \A t \in Threads :
    (callers = {t} /\ th[t].cancelled) =>
      /\ (th[t].pc = "woken" /\ th[t].slpret = "0") => ~OwnCommandPending(t)
      /\ (th[t].pc = "copy" /\ buffer.valid) =>
           buffer.lba = th[t].cmds[Len(th[t].cmds)].lba

====
